---------------------------- MODULE Spec2Model ----------------------------
(***************************************************************************)
(* The installation pipeline of mas-installer (src/src/utils.rs):          *)
(* install_game_in_thread / install_game, _download_to_file,               *)
(* _extract_archive and cleanup, run by one background thread, with the UI *)
(* thread writing the shared state (abort flag and options) at any moment. *)
(*                                                                         *)
(* pc is the position of the background thread; a label "f_N" is line N of *)
(* function f (ig = install_game, dl = _download_to_file,                  *)
(* ex = _extract_archive, cu = cleanup, th = the thread's closure).        *)
(* One action is one statement group of the source, with the outcome of a  *)
(* network or filesystem call drawn by \E.                                 *)
(***************************************************************************)
EXTENDS Integers, Sequences, FiniteSets, TLC

(***************************************************************************)
(* Bounds.  DEF_CHUNK_SIZE is 1024*1024*8 + 1 in the source (line 259);    *)
(* the download loop uses it only through min(DEF_CHUNK_SIZE,              *)
(* content_size), so the model scales it down to keep every byte offset    *)
(* of a download enumerable.                                               *)
(***************************************************************************)
DEF_CHUNK_SIZE == 2
\* largest Content-Length the HEAD response reports
MaxContent == 5
\* largest body a ranged GET answers with
MaxBody == 3
\* ranged GETs of one call that the request and progress logs record
MaxGets == 4
\* largest number of entries of an archive
MaxEntries == 2

\* std::cmp::min
Min(a, b) == IF a <= b THEN a ELSE b

(***************************************************************************)
(* u128 subtraction up_bound - 1 (line 283).  0 - 1 wraps to 2^128 - 1     *)
(* when overflow checks are off; TLC's integers are narrower, so the       *)
(* wrapped value is written U128_MAX == -1 (its two's-complement reading)  *)
(* and never used in arithmetic.                                           *)
(***************************************************************************)
U128_MAX == -1
WrappingSub1(x) == IF x = 0 THEN U128_MAX ELSE x - 1

\* Message (the enum sent over the fltk channel)
Phase(m) == [name |-> m]
\* Message::UpdateProgressBar(num as f64 / den as f64)
UpdateProgressBar(n, d) == [name |-> "UpdateProgressBar", num |-> n, den |-> d]

\* InstallResult / Result<(), E> of a returned call, with the returning line
Ok(l) == [val |-> "Ok", err |-> "none", line |-> l]
Err(e, l) == [val |-> "Err", err |-> e, line |-> l]
NoRet == [val |-> "none", err |-> "none", line |-> 0]

VARIABLES
    scope,      \* the function the behaviour runs: install_game_in_thread, or one stage alone
    pc,         \* position of the background thread
    ret_pc,     \* where the running stage function returns to
    app_state,  \* SharedState behind the mutex
    events,     \* the messages sent on the channel, in order
    requests,   \* the HTTP requests issued, in order
    files,      \* bytes written to the two temp files
    disk,       \* what extraction wrote: records [target, kind]
    ig,         \* locals of install_game
    dl,         \* arguments and locals of _download_to_file
    ex,         \* arguments and locals of _extract_archive
    call_ret,   \* result of the last stage function that returned
    ig_ret,     \* result of install_game
    thread,     \* "running", "returned" or "panicked"
    obs,        \* observations of the run (not program state)
    mutex       \* the Mutex around SharedState: "free", or "pipeline" while the
                \* background thread holds its guard

vars == <<scope, pc, ret_pc, app_state, events, requests, files, disk,
          ig, dl, ex, call_ret, ig_ret, thread, obs, mutex>>


(***************************************************************************)
(* Observations.  last_read is what the latest read of the abort flag      *)
(* returned, and goes back to "none" with the next event or piece of work. *)
(* fresh holds from the moment the UI sets the flag to the thread's next   *)
(* step: the blocking call the thread is at in that moment is the one in   *)
(* flight.  failed_at places the run's failure (an Err or a panic) before  *)
(* the setting of the flag, in the call in flight then, or after it.       *)
(* spr_toggled tells that the UI changed install_spr_flag during the run.  *)
(* head is what the HEAD response of the download under way carried as     *)
(* Content-Length.  late keeps the positions of the blocking calls that    *)
(* were started with the flag set, the call in flight at its setting       *)
(* excepted.                                                               *)
(***************************************************************************)
ObsRead(v) ==
    [obs EXCEPT !.last_read = IF v THEN "set" ELSE "clear", !.fresh = FALSE]
ObsWork == [obs EXCEPT !.last_read = "none", !.fresh = FALSE]
ObsStep == [obs EXCEPT !.fresh = FALSE]
\* a blocking call (network, filesystem) that ended with or without failure
ObsBlocking(failed) ==
    [obs EXCEPT !.last_read = "none", !.fresh = FALSE,
                !.failed_at =
                    IF ~failed THEN @
                    ELSE IF ~app_state.abort_flag THEN "before_abort"
                    ELSE IF obs.fresh THEN "in_flight"
                    ELSE "after_abort",
                !.after_abort =
                    IF app_state.abort_flag /\ ~obs.fresh THEN @ + 1 ELSE @,
                !.late =
                    IF app_state.abort_flag /\ ~obs.fresh THEN @ \cup {pc} ELSE @]

\* sender.send(m)
Send(log, m) == Append(log, m)

\* app_state.lock().unwrap().get_abort_flag()
get_abort_flag == app_state.abort_flag

(***************************************************************************)
(* The Mutex around SharedState.  Every getter is called on the temporary  *)
(* guard of `app_state.lock().unwrap()`: Lock is the acquisition, and the  *)
(* step that evaluates the getter drops the guard (Unlock) at the end of   *)
(* the `if` condition (lines 263, 315, 334, 371, 416, 451, 463, 469, 483,  *)
(* 495), of the `let` statement (line 429) or of the `match` (lines        *)
(* 424-427).                                                               *)
(***************************************************************************)
\* the positions at which the thread calls app_state.lock()
LockSites == {"dl_263", "dl_315", "ex_334", "ex_371", "ig_416", "ig_424",
              "ig_429", "ig_451", "ig_463", "ig_469", "ig_483", "ig_495"}

\* app_state.lock().unwrap(): blocks while the mutex is taken
Lock ==
    /\ pc \in LockSites
    /\ mutex = "free"
    /\ mutex' = "pipeline"
    /\ UNCHANGED <<scope, pc, ret_pc, app_state, events, requests, files, disk,
                   ig, dl, ex, call_ret, ig_ret, thread, obs>>

\* the drop of the temporary guard
Unlock == mutex = "pipeline" /\ mutex' = "free"

\* `return r` of a stage function (_download_to_file, _extract_archive)
ReturnStage(r) ==
    /\ call_ret' = r
    /\ pc' = ret_pc

(***************************************************************************)
(* The server.  A ranged GET for bytes first..last of a resource of        *)
(* content bytes finds Available bytes of that range on the server.        *)
(***************************************************************************)
Available(first, last, content) ==
    IF first >= content THEN 0
    ELSE IF last = U128_MAX THEN content - first
    ELSE Min(last + 1, content) - first
\* the body is the requested range: all of it, or what the resource holds of it
ExactBody(first, last, content, body) ==
    \/ body = Available(first, last, content)
    \/ last # U128_MAX /\ body = last - first + 1
\* the bodies a successful ranged GET may carry
Bodies(first, last, content) ==
    IF scope = "install_game" THEN {Available(first, last, content)}
    ELSE 0..MaxBody

\* the Content-Length values the HEAD response may carry
ContentLengths ==
    IF scope = "install_game" THEN {0, DEF_CHUNK_SIZE + 1} ELSE 0..MaxContent

(***************************************************************************)
(* _download_to_file                                                       *)
(***************************************************************************)
\* line 261
DL_SendZero ==
    /\ pc = "dl_261"
    /\ events' = Send(events, UpdateProgressBar(0, 1))
    /\ pc' = "dl_263"
    /\ obs' = ObsWork
    /\ UNCHANGED <<mutex, scope, ret_pc, app_state, requests, files, disk, ig, dl, ex,
                   call_ret, ig_ret, thread>>

\* lines 263-265 without the early return: the flag is read and not acted on
DL_AbortCheck_263_NoReturn ==
    /\ pc = "dl_263"
    /\ obs' = ObsRead(get_abort_flag)
    /\ pc' = "dl_267"
    /\ Unlock
    /\ UNCHANGED <<scope, ret_pc, app_state, events, requests, files, disk, ig,
                   dl, ex, call_ret, ig_ret, thread>>

\* lines 263-265
DL_AbortCheck_263 ==
    /\ pc = "dl_263"
    /\ obs' = ObsRead(get_abort_flag)
    /\ IF get_abort_flag
       THEN ReturnStage(Ok(264))
       ELSE pc' = "dl_267" /\ UNCHANGED call_ret
    /\ Unlock
    /\ UNCHANGED <<scope, ret_pc, app_state, events, requests, files, disk, ig,
                   dl, ex, ig_ret, thread>>

\* what lines 268-271 find of Content-Length in the HEAD response: no such header,
\* a value that is not text, text that is no u128, or a number
BadContentLengths == {"absent", "not_text", "not_number"}
\* the line at which a bad Content-Length makes the call return
InvalidContentLenLine(h) ==
    IF h = "absent" THEN 269 ELSE IF h = "not_text" THEN 270 ELSE 271

\* lines 267-276 with `.unwrap_or(0)` for the three `ok_or(..)?`: a bad
\* Content-Length counts as 0
DL_Head_DefaultZero ==
    /\ pc = "dl_267"
    /\ requests' = Append(requests, [method |-> "HEAD", url |-> dl.link, range |-> <<>>])
    /\ \/ /\ ReturnStage(Err("Reqwest", 267))
          /\ obs' = ObsBlocking(TRUE)
          /\ UNCHANGED dl
       \/ \E h \in BadContentLengths :
             /\ dl' = [dl EXCEPT !.content_size = 0, !.chunk_size = 0, !.low_bound = 0,
                                 !.up_bound = 0, !.total_downloaded = 0]
             /\ pc' = "dl_281"
             /\ obs' = [ObsBlocking(FALSE) EXCEPT !.head = h]
             /\ UNCHANGED call_ret
       \/ \E len \in ContentLengths :
             /\ dl' = [dl EXCEPT !.content_size = len,
                                 !.chunk_size = Min(DEF_CHUNK_SIZE, len),
                                 !.low_bound = 0,
                                 !.up_bound = Min(DEF_CHUNK_SIZE, len),
                                 !.total_downloaded = 0]
             /\ pc' = "dl_281"
             /\ obs' = [ObsBlocking(FALSE) EXCEPT !.head = "number"]
             /\ UNCHANGED call_ret
    /\ UNCHANGED <<mutex, scope, ret_pc, app_state, events, files, disk, ig, ex,
                   ig_ret, thread>>

\* lines 267-276 with `up_bound = DEF_CHUNK_SIZE` for `up_bound = chunk_size`
DL_Head_NoMin ==
    /\ pc = "dl_267"
    /\ requests' = Append(requests, [method |-> "HEAD", url |-> dl.link, range |-> <<>>])
    /\ \/ /\ ReturnStage(Err("Reqwest", 267))
          /\ obs' = ObsBlocking(TRUE)
          /\ UNCHANGED dl
       \/ \E h \in BadContentLengths :
             /\ ReturnStage(Err("InvalidContentLen", InvalidContentLenLine(h)))
             /\ obs' = [ObsBlocking(TRUE) EXCEPT !.head = h]
             /\ UNCHANGED dl
       \/ \E len \in ContentLengths :
             /\ dl' = [dl EXCEPT !.content_size = len,
                                 !.chunk_size = Min(DEF_CHUNK_SIZE, len),
                                 !.low_bound = 0,
                                 !.up_bound = DEF_CHUNK_SIZE,
                                 !.total_downloaded = 0]
             /\ pc' = "dl_281"
             /\ obs' = [ObsBlocking(FALSE) EXCEPT !.head = "number"]
             /\ UNCHANGED call_ret
    /\ UNCHANGED <<mutex, scope, ret_pc, app_state, events, files, disk, ig, ex,
                   ig_ret, thread>>

\* lines 267-276: HEAD, Content-Length, the initial bounds
DL_Head ==
    /\ pc = "dl_267"
    /\ requests' = Append(requests, [method |-> "HEAD", url |-> dl.link, range |-> <<>>])
    /\ \/ /\ ReturnStage(Err("Reqwest", 267))
          /\ obs' = ObsBlocking(TRUE)
          /\ UNCHANGED dl
       \/ \E h \in BadContentLengths :
             /\ ReturnStage(Err("InvalidContentLen", InvalidContentLenLine(h)))
             /\ obs' = [ObsBlocking(TRUE) EXCEPT !.head = h]
             /\ UNCHANGED dl
       \/ \E len \in ContentLengths :
             /\ dl' = [dl EXCEPT !.content_size = len,
                                 !.chunk_size = Min(DEF_CHUNK_SIZE, len),
                                 !.low_bound = 0,
                                 !.up_bound = Min(DEF_CHUNK_SIZE, len),
                                 !.total_downloaded = 0]
             /\ pc' = "dl_281"
             /\ obs' = [ObsBlocking(FALSE) EXCEPT !.head = "number"]
             /\ UNCHANGED call_ret
    /\ UNCHANGED <<mutex, scope, ret_pc, app_state, events, files, disk, ig, ex,
                   ig_ret, thread>>

\* the request of lines 281-284 as the log keeps it
RangeRequest == [method |-> "GET", url |-> dl.link,
                 range |-> <<dl.low_bound, WrappingSub1(dl.up_bound)>>]

\* line 283 with overflow checks on: `up_bound-1` panics when up_bound is 0
DL_GetPanic ==
    /\ pc = "dl_281"
    /\ dl.up_bound = 0
    /\ pc' = "done"
    /\ thread' = "panicked"
    /\ obs' = [ObsBlocking(TRUE) EXCEPT !.panic_line = 283,
                                        !.after_abort = obs.after_abort,
                                        !.late = obs.late]
    /\ UNCHANGED <<mutex, scope, ret_pc, app_state, events, requests, files, disk, ig,
                   dl, ex, call_ret, ig_ret>>

\* lines 281-289: the ranged GET and its status
DL_Get ==
    /\ pc = "dl_281"
    /\ requests' = IF obs.gets < MaxGets THEN Append(requests, RangeRequest)
                   ELSE requests
    /\ \/ /\ \E e \in {<<"Reqwest", 284>>, <<"InvalidStatusCode", 288>>} :
                ReturnStage(Err(e[1], e[2]))
          /\ obs' = [ObsBlocking(TRUE) EXCEPT !.gets = Min(@ + 1, MaxGets + 1)]
          /\ UNCHANGED dl
       \/ \E body \in Bodies(dl.low_bound, WrappingSub1(dl.up_bound), dl.content_size) :
             /\ dl' = [dl EXCEPT !.resp = body]
             /\ pc' = "dl_292"
             /\ obs' = [ObsBlocking(FALSE) EXCEPT
                          !.gets = Min(@ + 1, MaxGets + 1),
                          !.exact = @ /\ ExactBody(dl.low_bound, WrappingSub1(dl.up_bound),
                                                   dl.content_size, body)]
             /\ UNCHANGED call_ret
    /\ UNCHANGED <<mutex, scope, ret_pc, app_state, events, files, disk, ig, ex,
                   ig_ret, thread>>

\* lines 292-293 with `total_downloaded = received_chunk` for `+=`
DL_Copy_Assign ==
    /\ pc = "dl_292"
    /\ \/ \E written \in {0, dl.resp} :
             /\ files' = [files EXCEPT ![dl.file] = @ + written]
             /\ ReturnStage(Err("Reqwest", 292))
             /\ obs' = ObsBlocking(TRUE)
             /\ UNCHANGED dl
       \/ /\ files' = [files EXCEPT ![dl.file] = @ + dl.resp]
          /\ dl' = [dl EXCEPT !.received_chunk = dl.resp,
                              !.total_downloaded = dl.resp]
          /\ pc' = "dl_296"
          /\ obs' = ObsBlocking(FALSE)
          /\ UNCHANGED call_ret
    /\ UNCHANGED <<mutex, scope, ret_pc, app_state, events, requests, disk, ig, ex,
                   ig_ret, thread>>

\* lines 292-293: resp.copy_to(file), total_downloaded += received_chunk
DL_Copy ==
    /\ pc = "dl_292"
    /\ \/ \E written \in {0, dl.resp} :
             /\ files' = [files EXCEPT ![dl.file] = @ + written]
             /\ ReturnStage(Err("Reqwest", 292))
             /\ obs' = ObsBlocking(TRUE)
             /\ UNCHANGED dl
       \/ /\ files' = [files EXCEPT ![dl.file] = @ + dl.resp]
          /\ dl' = [dl EXCEPT !.received_chunk = dl.resp,
                              !.total_downloaded = @ + dl.resp]
          /\ pc' = "dl_296"
          /\ obs' = ObsBlocking(FALSE)
          /\ UNCHANGED call_ret
    /\ UNCHANGED <<mutex, scope, ret_pc, app_state, events, requests, disk, ig, ex,
                   ig_ret, thread>>

\* lines 296-304: the progress value, then `break` to the return of line 322
DL_Progress ==
    /\ pc = "dl_296"
    /\ events' = IF dl.content_size # 0 /\ obs.gets <= MaxGets
                 THEN Send(events, UpdateProgressBar(dl.total_downloaded, dl.content_size))
                 ELSE events
    /\ obs' = IF dl.content_size # 0 THEN ObsWork ELSE ObsStep
    /\ IF dl.total_downloaded >= dl.content_size
       THEN ReturnStage(Ok(322))
       ELSE pc' = "dl_308" /\ UNCHANGED call_ret
    /\ UNCHANGED <<mutex, scope, ret_pc, app_state, requests, files, disk, ig, dl, ex,
                   ig_ret, thread>>

\* lines 308-313 with `chunk_size` for `bound_inc`: the bounds move by a whole
\* chunk whatever was received
DL_Advance_ByChunk ==
    /\ pc = "dl_308"
    /\ dl' = [dl EXCEPT !.low_bound = @ + dl.chunk_size,
                        !.up_bound = Min(@ + dl.chunk_size, dl.content_size + 1)]
    /\ pc' = "dl_315"
    /\ obs' = ObsStep
    /\ UNCHANGED <<mutex, scope, ret_pc, app_state, events, requests, files, disk, ig,
                   ex, call_ret, ig_ret, thread>>

\* lines 308-313: the next bounds, then sleep()
DL_Advance ==
    /\ pc = "dl_308"
    /\ LET bound_inc == Min(dl.received_chunk, dl.chunk_size)
       IN  dl' = [dl EXCEPT !.low_bound = @ + bound_inc,
                            !.up_bound = Min(@ + bound_inc, dl.content_size + 1)]
    /\ pc' = "dl_315"
    /\ obs' = ObsStep
    /\ UNCHANGED <<mutex, scope, ret_pc, app_state, events, requests, files, disk, ig,
                   ex, call_ret, ig_ret, thread>>

\* lines 315-317
DL_AbortCheck_315 ==
    /\ pc = "dl_315"
    /\ obs' = ObsRead(get_abort_flag)
    /\ IF get_abort_flag
       THEN ReturnStage(Ok(316))
       ELSE pc' = "dl_281" /\ UNCHANGED call_ret
    /\ Unlock
    /\ UNCHANGED <<scope, ret_pc, app_state, events, requests, files, disk, ig,
                   dl, ex, ig_ret, thread>>

DownloadNext ==
    \/ DL_SendZero
    \/ DL_AbortCheck_263
    \/ DL_Head
    \/ DL_GetPanic
    \/ DL_Get
    \/ DL_Copy
    \/ DL_Progress
    \/ DL_Advance
    \/ DL_AbortCheck_315

(***************************************************************************)
(* Stored paths.  A path is its sequence of components, "/" the root and   *)
(* ".." the parent directory.                                              *)
(***************************************************************************)
Root == "/"
Parent == ".."

\* ZipFile::enclosed_name (line 344): None for an absolute path and for one
\* that climbs above its starting directory; depth counts the components.
RECURSIVE Encloses(_, _)
Encloses(path, depth) ==
    IF path = <<>> THEN TRUE
    ELSE IF Head(path) = Root THEN FALSE
    ELSE IF Head(path) = Parent
         THEN depth > 0 /\ Encloses(Tail(path), depth - 1)
    ELSE Encloses(Tail(path), depth + 1)
enclosed_name(path) == Encloses(path, 0)

\* Path::join (lines 347, 493): an absolute path replaces the base
Join(base, path) ==
    IF path # <<>> /\ Head(path) = Root THEN path ELSE base \o path

\* Path::parent (line 356)
ParentDir(path) == SubSeq(path, 1, Len(path) - 1)

\* where a path leads once the filesystem resolves its ".." components
RECURSIVE Resolve(_, _)
Resolve(done, rest) ==
    IF rest = <<>> THEN done
    ELSE IF Head(rest) = Parent
         THEN Resolve(IF Len(done) > 1 THEN ParentDir(done) ELSE done, Tail(rest))
    ELSE Resolve(Append(done, Head(rest)), Tail(rest))

\* target lies in the tree under base
Inside(target, base) ==
    LET t == Resolve(<<>>, target)
    IN  Len(t) >= Len(base) /\ SubSeq(t, 1, Len(base)) = base

StoredPaths == {<<"a">>, <<"d", "b">>, <<"d", Parent, "b">>,
                <<Parent, "evil">>, <<Root, "evil">>}
Entries == [is_dir : BOOLEAN, name : StoredPaths]

RECURSIVE SeqsUpTo(_, _)
SeqsUpTo(S, n) ==
    IF n = 0 THEN {<<>>}
    ELSE LET shorter == SeqsUpTo(S, n - 1)
         IN  shorter \cup {Append(q, e) : q \in {r \in shorter : Len(r) = n - 1}, e \in S}

\* the archives a temp file may hold
Archives ==
    IF scope = "install_game"
    THEN SeqsUpTo({[is_dir |-> FALSE, name |-> <<"a">>],
                   [is_dir |-> FALSE, name |-> <<Parent, "evil">>]}, 1)
    ELSE SeqsUpTo(Entries, MaxEntries)

(***************************************************************************)
(* _extract_archive                                                        *)
(***************************************************************************)
\* line 332
EX_SendZero ==
    /\ pc = "ex_332"
    /\ events' = Send(events, UpdateProgressBar(0, 1))
    /\ pc' = "ex_334"
    /\ obs' = ObsWork
    /\ UNCHANGED <<mutex, scope, ret_pc, app_state, requests, files, disk, ig, dl, ex,
                   call_ret, ig_ret, thread>>

\* lines 334-336
EX_AbortCheck_334 ==
    /\ pc = "ex_334"
    /\ obs' = ObsRead(get_abort_flag)
    /\ IF get_abort_flag
       THEN ReturnStage(Ok(335))
       ELSE pc' = "ex_338" /\ UNCHANGED call_ret
    /\ Unlock
    /\ UNCHANGED <<scope, ret_pc, app_state, events, requests, files, disk, ig,
                   dl, ex, ig_ret, thread>>

\* lines 338-341: ZipArchive::new, archive.len(), the loop's first test
EX_Open ==
    /\ pc = "ex_338"
    /\ \/ /\ ReturnStage(Err("Zip", 338))
          /\ obs' = ObsBlocking(TRUE)
          /\ UNCHANGED ex
       \/ \E a \in Archives :
             /\ ex' = [ex EXCEPT !.archive = a, !.total_files = Len(a), !.i = 0,
                                 !.opened = TRUE]
             /\ obs' = ObsBlocking(FALSE)
             /\ IF Len(a) = 0
                THEN ReturnStage(Ok(375))
                ELSE pc' = "ex_342" /\ UNCHANGED call_ret
    /\ UNCHANGED <<mutex, scope, ret_pc, app_state, events, requests, files, disk, ig,
                   dl, ig_ret, thread>>

\* the entry archive.by_index(i) yields (0-based i)
CurrentEntry == ex.archive[ex.i + 1]

\* lines 342-347 with `file.mangled_name()` for `file.enclosed_name()`: no path
\* is refused
EX_Entry_Unvalidated ==
    /\ pc = "ex_342"
    /\ \/ /\ ReturnStage(Err("Zip", 342))
          /\ obs' = ObsBlocking(TRUE)
       \/ /\ obs' = ObsBlocking(FALSE)
          /\ pc' = "ex_350"
          /\ UNCHANGED call_ret
    /\ UNCHANGED <<mutex, scope, ret_pc, app_state, events, requests, files, disk, ig,
                   dl, ex, ig_ret, thread>>

\* lines 342-347: by_index(i), enclosed_name(), the extraction path
EX_Entry ==
    /\ pc = "ex_342"
    /\ \/ /\ ReturnStage(Err("Zip", 342))
          /\ obs' = ObsBlocking(TRUE)
       \/ /\ obs' = ObsBlocking(~enclosed_name(CurrentEntry.name))
          /\ IF enclosed_name(CurrentEntry.name)
             THEN pc' = "ex_350" /\ UNCHANGED call_ret
             ELSE ReturnStage(Err("UnsafeFilepath", 345))
    /\ UNCHANGED <<mutex, scope, ret_pc, app_state, events, requests, files, disk, ig,
                   dl, ex, ig_ret, thread>>

\* what lines 350-364 leave on disk when they stop at `upto`
Written(entry, extraction_path, upto) ==
    IF entry.is_dir
    THEN IF upto = "create_dir_all" THEN {}
         ELSE {[target |-> extraction_path, kind |-> "dir"]}
    ELSE IF upto = "create_dir_all" THEN {}
         ELSE IF upto = "File::create"
              THEN {[target |-> ParentDir(extraction_path), kind |-> "dir"]}
         ELSE {[target |-> ParentDir(extraction_path), kind |-> "dir"],
               [target |-> extraction_path, kind |-> "file"]}

\* lines 350-364: create the directory, or the parent directory and the file
EX_Write ==
    /\ pc = "ex_350"
    /\ LET extraction_path == Join(ex.destination, CurrentEntry.name)
       IN  \/ \E failed \in (IF CurrentEntry.is_dir THEN {"create_dir_all"}
                             ELSE {"create_dir_all", "File::create", "io::copy"}) :
                 /\ disk' = disk \cup Written(CurrentEntry, extraction_path, failed)
                 /\ ReturnStage(Err("Io", IF failed = "create_dir_all"
                                          THEN (IF CurrentEntry.is_dir THEN 351 ELSE 358)
                                          ELSE IF failed = "File::create" THEN 362
                                          ELSE 363))
                 /\ obs' = ObsBlocking(TRUE)
           \/ /\ disk' = disk \cup Written(CurrentEntry, extraction_path, "end")
              /\ pc' = "ex_367"
              /\ obs' = ObsBlocking(FALSE)
              /\ UNCHANGED call_ret
    /\ UNCHANGED <<mutex, scope, ret_pc, app_state, events, requests, files, ig, dl, ex,
                   ig_ret, thread>>

\* lines 367-368 with `i` for `i+1` in the quotient
EX_Progress_Index ==
    /\ pc = "ex_367"
    /\ events' = Send(events, UpdateProgressBar(ex.i, ex.total_files))
    /\ pc' = "ex_371"
    /\ obs' = ObsWork
    /\ UNCHANGED <<mutex, scope, ret_pc, app_state, requests, files, disk, ig, dl, ex,
                   call_ret, ig_ret, thread>>

\* lines 367-368
EX_Progress ==
    /\ pc = "ex_367"
    /\ events' = Send(events, UpdateProgressBar(ex.i + 1, ex.total_files))
    /\ pc' = "ex_371"
    /\ obs' = ObsWork
    /\ UNCHANGED <<mutex, scope, ret_pc, app_state, requests, files, disk, ig, dl, ex,
                   call_ret, ig_ret, thread>>

\* lines 371-375 and the loop's next test (line 341)
EX_AbortCheck_371 ==
    /\ pc = "ex_371"
    /\ obs' = ObsRead(get_abort_flag)
    /\ IF get_abort_flag
       THEN ReturnStage(Ok(372)) /\ UNCHANGED ex
       ELSE /\ ex' = [ex EXCEPT !.i = @ + 1]
            /\ IF ex.i + 1 = ex.total_files
               THEN ReturnStage(Ok(375))
               ELSE pc' = "ex_342" /\ UNCHANGED call_ret
    /\ Unlock
    /\ UNCHANGED <<scope, ret_pc, app_state, events, requests, files, disk, ig,
                   dl, ig_ret, thread>>

ExtractNext ==
    \/ EX_SendZero
    \/ EX_AbortCheck_334
    \/ EX_Open
    \/ EX_Entry
    \/ EX_Write
    \/ EX_Progress
    \/ EX_AbortCheck_371

(***************************************************************************)
(* Values of the locals before their first assignment                      *)
(***************************************************************************)
Links == {"def_dl_link", "dlx_dl_link", "spr_dl_link"}
TempFiles == {"mas.tmp", "spr.tmp"}

NoDl == [link |-> "none", file |-> "none", content_size |-> 0, chunk_size |-> 0,
         low_bound |-> 0, up_bound |-> 0, total_downloaded |-> 0,
         received_chunk |-> 0, resp |-> 0]
NoEx == [file |-> "none", destination |-> <<>>, archive |-> <<>>,
         total_files |-> 0, i |-> 0, opened |-> FALSE]
NoIg == [download_link |-> "none", destination |-> <<>>, temp |-> {},
         spr |-> "unread"]
Obs0 == [stage |-> "none", last_read |-> "none", fresh |-> FALSE,
         abort_pc |-> "none", failed_at |-> "none", after_abort |-> 0,
         gets |-> 0, exact |-> TRUE, panic_line |-> 0, spr_toggled |-> FALSE, head |-> "none",
         late |-> {}]

(***************************************************************************)
(* install_game                                                            *)
(***************************************************************************)
\* `return r` of install_game; temp_dir and the temp file handles are dropped
ReturnInstall(r) ==
    /\ ig_ret' = r
    /\ ig' = [ig EXCEPT !.temp = {}]
    /\ pc' = "th_515"

\* an abort check with the guard bound by a `let` that lives to the end of
\* install_game instead of a temporary: it is not dropped after the read
AbortCheck_GuardKept(at, line, next) ==
    /\ pc = at
    /\ mutex = "pipeline"
    /\ obs' = ObsRead(get_abort_flag)
    /\ IF get_abort_flag
       THEN ReturnInstall(Ok(line + 1))
       ELSE pc' = next /\ UNCHANGED <<ig, ig_ret>>
    /\ UNCHANGED <<mutex, scope, ret_pc, app_state, events, requests, files, disk,
                   dl, ex, call_ret, thread>>

\* an abort check of install_game at `line`, with the sleep() that follows it
AbortCheck(at, line, next) ==
    /\ pc = at
    /\ obs' = ObsRead(get_abort_flag)
    /\ IF get_abort_flag
       THEN ReturnInstall(Ok(line + 1))
       ELSE pc' = next /\ UNCHANGED <<ig, ig_ret>>
    /\ Unlock
    /\ UNCHANGED <<scope, ret_pc, app_state, events, requests, files, disk, dl,
                   ex, call_ret, thread>>

\* the `?` after a stage call that ends at `line`
Question(at, line, next) ==
    /\ pc = at
    /\ obs' = ObsStep
    /\ IF call_ret.val = "Err"
       THEN ReturnInstall(Err(call_ret.err, line))
       ELSE pc' = next /\ UNCHANGED <<ig, ig_ret>>
    /\ UNCHANGED <<mutex, scope, ret_pc, app_state, events, requests, files, disk, dl,
                   ex, call_ret, thread>>

\* sender.send(msg); _download_to_file(&client, sender, app_state, link, file)
CallDownload(at, msg, stage, link, file, back) ==
    /\ pc = at
    /\ events' = Send(events, Phase(msg))
    /\ dl' = [NoDl EXCEPT !.link = link, !.file = file]
    /\ pc' = "dl_261"
    /\ ret_pc' = back
    /\ obs' = [ObsWork EXCEPT !.stage = stage, !.gets = 0, !.exact = TRUE,
                              !.head = "none"]
    /\ UNCHANGED <<mutex, scope, app_state, requests, files, disk, ig, ex, call_ret,
                   ig_ret, thread>>

\* sender.send(msg); _extract_archive(sender, app_state, file, destination)
CallExtract(at, msg, stage, file, destination, back) ==
    /\ pc = at
    /\ events' = Send(events, Phase(msg))
    /\ ex' = [NoEx EXCEPT !.file = file, !.destination = destination]
    /\ pc' = "ex_332"
    /\ ret_pc' = back
    /\ obs' = [ObsWork EXCEPT !.stage = stage]
    /\ UNCHANGED <<mutex, scope, app_state, requests, files, disk, ig, dl, call_ret,
                   ig_ret, thread>>

\* lines 413-414
IG_Preparing ==
    /\ pc = "ig_413"
    /\ events' = Send(Send(events, Phase("Preparing")), UpdateProgressBar(0, 1))
    /\ pc' = "ig_416"
    /\ obs' = [ObsWork EXCEPT !.stage = "Preparing"]
    /\ UNCHANGED <<mutex, scope, ret_pc, app_state, requests, files, disk, ig, dl, ex,
                   call_ret, ig_ret, thread>>

\* lines 416-418
IG_AbortCheck_416 == AbortCheck("ig_416", 416, "ig_420")

\* line 420: build_client()?
IG_BuildClient ==
    /\ pc = "ig_420"
    /\ \/ /\ ReturnInstall(Err("Reqwest", 420))
          /\ obs' = [ObsBlocking(TRUE) EXCEPT !.stage = "ResolvingRelease"]
       \/ /\ pc' = "ig_423"
          /\ obs' = [ObsBlocking(FALSE) EXCEPT !.stage = "ResolvingRelease"]
          /\ UNCHANGED <<ig, ig_ret>>
    /\ UNCHANGED <<mutex, scope, ret_pc, app_state, events, requests, files, disk, dl,
                   ex, call_ret, thread>>

\* line 423: get_release_data(&client)? (lines 215-248)
IG_GetReleaseData ==
    /\ pc = "ig_423"
    /\ requests' = Append(requests, [method |-> "GET", url |-> "releases/latest",
                                     range |-> <<>>])
    /\ \/ /\ \E e \in {"Reqwest", "Json", "CorruptedJSON"} :
                ReturnInstall(Err(e, 423))
          /\ obs' = ObsBlocking(TRUE)
       \/ /\ pc' = "ig_424"
          /\ obs' = ObsBlocking(FALSE)
          /\ UNCHANGED <<ig, ig_ret>>
    /\ UNCHANGED <<mutex, scope, ret_pc, app_state, events, files, disk, dl, ex,
                   call_ret, thread>>

\* lines 424-427: the edition flag chooses the link
IG_ReadDeluxeVerFlag ==
    /\ pc = "ig_424"
    /\ ig' = [ig EXCEPT !.download_link =
                 IF app_state.deluxe_ver_flag THEN "dlx_dl_link" ELSE "def_dl_link"]
    /\ pc' = "ig_429"
    /\ obs' = ObsStep
    /\ Unlock
    /\ UNCHANGED <<scope, ret_pc, app_state, events, requests, files, disk, dl,
                   ex, call_ret, ig_ret, thread>>

\* line 429: the extraction directory
IG_ReadExtractionDir ==
    /\ pc = "ig_429"
    /\ ig' = [ig EXCEPT !.destination = app_state.extraction_dir]
    /\ pc' = "ig_431"
    /\ obs' = ObsStep
    /\ Unlock
    /\ UNCHANGED <<scope, ret_pc, app_state, events, requests, files, disk, dl,
                   ex, call_ret, ig_ret, thread>>

\* lines 431-432: progress 0.5, sleep()
IG_ReleaseResolved ==
    /\ pc = "ig_431"
    /\ events' = Send(events, UpdateProgressBar(1, 2))
    /\ pc' = "ig_435"
    /\ obs' = ObsWork
    /\ UNCHANGED <<mutex, scope, ret_pc, app_state, requests, files, disk, ig, dl,
                   ex, call_ret, ig_ret, thread>>

\* line 435: _create_temp_dir()?
IG_CreateTempDir ==
    /\ pc = "ig_435"
    /\ \/ /\ ReturnInstall(Err("Io", 435))
          /\ obs' = [ObsBlocking(TRUE) EXCEPT !.stage = "PreparingTempStorage"]
       \/ /\ ig' = [ig EXCEPT !.temp = {"temp_dir"}]
          /\ pc' = "ig_436"
          /\ obs' = [ObsBlocking(FALSE) EXCEPT !.stage = "PreparingTempStorage"]
          /\ UNCHANGED ig_ret
    /\ UNCHANGED <<mutex, scope, ret_pc, app_state, events, requests, files, disk, dl,
                   ex, call_ret, thread>>

\* _create_temp_file(&temp_dir, name)? at `line`
CreateTempFile(at, line, name, next) ==
    /\ pc = at
    /\ \/ /\ ReturnInstall(Err("Io", line))
          /\ obs' = ObsBlocking(TRUE)
          /\ UNCHANGED files
       \/ /\ ig' = [ig EXCEPT !.temp = @ \cup {name}]
          /\ files' = [files EXCEPT ![name] = 0]
          /\ pc' = next
          /\ obs' = ObsBlocking(FALSE)
          /\ UNCHANGED ig_ret
    /\ UNCHANGED <<mutex, scope, ret_pc, app_state, events, requests, disk, dl, ex,
                   call_ret, thread>>

\* line 436
IG_CreateMasTempFile == CreateTempFile("ig_436", 436, "mas.tmp", "ig_437")
\* line 437
IG_CreateSprTempFile == CreateTempFile("ig_437", 437, "spr.tmp", "ig_439")

\* lines 439-440
IG_TempStorageReady ==
    /\ pc = "ig_439"
    /\ events' = Send(events, UpdateProgressBar(1, 1))
    /\ pc' = "ig_443"
    /\ obs' = ObsWork
    /\ UNCHANGED <<mutex, scope, ret_pc, app_state, requests, files, disk, ig, dl, ex,
                   call_ret, ig_ret, thread>>

\* lines 443-449
IG_Downloading ==
    CallDownload("ig_443", "Downloading", "DownloadingPrimary",
                 ig.download_link, "mas.tmp", "ig_450")
\* line 450
IG_Question_450 == Question("ig_450", 450, "ig_451")
\* lines 451-454
IG_AbortCheck_451 == AbortCheck("ig_451", 451, "ig_456")

\* lines 456-461
IG_Extracting ==
    CallExtract("ig_456", "Extracting", "ExtractingPrimary",
                "mas.tmp", ig.destination, "ig_462")
\* line 462
IG_Question_462 == Question("ig_462", 462, "ig_463")
\* lines 463-466
IG_AbortCheck_463 == AbortCheck("ig_463", 463, "ig_469")

\* lines 469-472 without the early cleanup: the spritepacks follow in every run
IG_ReadInstallSprFlag_NoBranch ==
    /\ pc = "ig_469"
    /\ ig' = [ig EXCEPT !.spr = IF app_state.install_spr_flag THEN "yes" ELSE "no"]
    /\ pc' = "ig_475"
    /\ obs' = ObsStep
    /\ Unlock
    /\ UNCHANGED <<scope, ret_pc, app_state, events, requests, files, disk, dl, ex,
                   call_ret, ig_ret, thread>>

\* lines 469-472: without spritepacks, cleanup and return
IG_ReadInstallSprFlag ==
    /\ pc = "ig_469"
    /\ ig' = [ig EXCEPT !.spr = IF app_state.install_spr_flag THEN "yes" ELSE "no"]
    /\ IF ~app_state.install_spr_flag
       THEN pc' = "cu_398" /\ ret_pc' = "ig_471"
       ELSE pc' = "ig_475" /\ UNCHANGED ret_pc
    /\ obs' = ObsStep
    /\ Unlock
    /\ UNCHANGED <<scope, app_state, events, requests, files, disk, dl, ex,
                   call_ret, ig_ret, thread>>

\* lines 475-481
IG_DownloadingSpr ==
    CallDownload("ig_475", "DownloadingSpr", "DownloadingSecondary",
                 "spr_dl_link", "spr.tmp", "ig_482")
\* line 482
IG_Question_482 == Question("ig_482", 482, "ig_483")
\* lines 483-486
IG_AbortCheck_483 == AbortCheck("ig_483", 483, "ig_488")

\* lines 488-493 with the directory taken from SharedState again instead of
\* the local `destination`
IG_ExtractingSpr_Reread ==
    CallExtract("ig_488", "ExtractingSpr", "ExtractingSecondary",
                "spr.tmp", Join(app_state.extraction_dir, <<"spritepacks">>), "ig_494")

\* lines 488-493
IG_ExtractingSpr ==
    CallExtract("ig_488", "ExtractingSpr", "ExtractingSecondary",
                "spr.tmp", Join(ig.destination, <<"spritepacks">>), "ig_494")
\* line 494
IG_Question_494 == Question("ig_494", 494, "ig_495")
\* lines 495-500: the last abort check; cleanup and line 502 follow
IG_AbortCheck_495 ==
    /\ pc = "ig_495"
    /\ obs' = ObsRead(get_abort_flag)
    /\ IF get_abort_flag
       THEN ReturnInstall(Ok(496)) /\ UNCHANGED ret_pc
       ELSE pc' = "cu_398" /\ ret_pc' = "ig_502" /\ UNCHANGED <<ig, ig_ret>>
    /\ Unlock
    /\ UNCHANGED <<scope, app_state, events, requests, files, disk, dl, ex,
                   call_ret, thread>>

\* lines 471 and 502: `return Ok(())` after cleanup
IG_ReturnOk ==
    /\ pc \in {"ig_471", "ig_502"}
    /\ ReturnInstall(Ok(IF pc = "ig_471" THEN 471 ELSE 502))
    /\ obs' = ObsStep
    /\ UNCHANGED <<mutex, scope, ret_pc, app_state, events, requests, files, disk, dl,
                   ex, call_ret, thread>>

InstallNext ==
    \/ IG_Preparing
    \/ IG_AbortCheck_416
    \/ IG_BuildClient
    \/ IG_GetReleaseData
    \/ IG_ReadDeluxeVerFlag
    \/ IG_ReadExtractionDir
    \/ IG_ReleaseResolved
    \/ IG_CreateTempDir
    \/ IG_CreateMasTempFile
    \/ IG_CreateSprTempFile
    \/ IG_TempStorageReady
    \/ IG_Downloading
    \/ IG_Question_450
    \/ IG_AbortCheck_451
    \/ IG_Extracting
    \/ IG_Question_462
    \/ IG_AbortCheck_463
    \/ IG_ReadInstallSprFlag
    \/ IG_DownloadingSpr
    \/ IG_Question_482
    \/ IG_AbortCheck_483
    \/ IG_ExtractingSpr
    \/ IG_Question_494
    \/ IG_AbortCheck_495
    \/ IG_ReturnOk

(***************************************************************************)
(* cleanup                                                                 *)
(***************************************************************************)
\* lines 398-401
CU_CleaningUp ==
    /\ pc = "cu_398"
    /\ events' = Send(Send(events, Phase("CleaningUp")), UpdateProgressBar(0, 1))
    /\ ig' = [ig EXCEPT !.temp = @ \ {"mas.tmp", "spr.tmp"}]
    /\ pc' = "cu_402"
    /\ obs' = [ObsWork EXCEPT !.stage = "CleaningUp"]
    /\ UNCHANGED <<mutex, scope, ret_pc, app_state, requests, files, disk, dl, ex,
                   call_ret, ig_ret, thread>>

\* lines 402-403
CU_Progress ==
    /\ pc = "cu_402"
    /\ events' = Send(events, UpdateProgressBar(1, 1))
    /\ pc' = "cu_404"
    /\ obs' = ObsWork
    /\ UNCHANGED <<mutex, scope, ret_pc, app_state, requests, files, disk, ig, dl, ex,
                   call_ret, ig_ret, thread>>

\* lines 404-406
CU_Done ==
    /\ pc = "cu_404"
    /\ events' = Send(events, Phase("Done"))
    /\ pc' = ret_pc
    /\ obs' = [ObsWork EXCEPT !.stage = "Done"]
    /\ UNCHANGED <<mutex, scope, ret_pc, app_state, requests, files, disk, ig, dl, ex,
                   call_ret, ig_ret, thread>>

CleanupNext == CU_CleaningUp \/ CU_Progress \/ CU_Done

(***************************************************************************)
(* install_game_in_thread: the closure the thread runs                     *)
(***************************************************************************)
\* lines 515-521 without the send of line 518: the error is dropped
TH_Match_NoSend ==
    /\ pc = "th_515"
    /\ thread' = "returned"
    /\ pc' = "done"
    /\ obs' = ObsStep
    /\ UNCHANGED <<mutex, scope, ret_pc, app_state, events, requests, files, disk, ig, dl,
                   ex, call_ret, ig_ret>>

\* lines 515-521
TH_Match ==
    /\ pc = "th_515"
    /\ events' = IF ig_ret.val = "Err" THEN Send(events, Phase("Error")) ELSE events
    /\ thread' = "returned"
    /\ pc' = "done"
    /\ obs' = IF ig_ret.val = "Err" THEN ObsWork ELSE ObsStep
    /\ UNCHANGED <<mutex, scope, ret_pc, app_state, requests, files, disk, ig, dl, ex,
                   call_ret, ig_ret>>

\* every step of the background thread
PipelineNext ==
    InstallNext \/ DownloadNext \/ ExtractNext \/ CleanupNext \/ TH_Match \/ Lock

(***************************************************************************)
(* The UI thread: the writers of SharedState (module app::state), one per  *)
(* control the interface offers.                                           *)
(***************************************************************************)
\* the directories the user may choose
Dirs == {<<Root, "dirA">>, <<Root, "dirB">>}

\* the UI requests abort
RequestAbort ==
    /\ mutex = "free"
    /\ ~app_state.abort_flag
    /\ app_state' = [app_state EXCEPT !.abort_flag = TRUE]
    /\ obs' = [obs EXCEPT !.fresh = (pc # "done"), !.abort_pc = pc]
    /\ UNCHANGED <<mutex, scope, pc, ret_pc, events, requests, files, disk, ig, dl, ex,
                   call_ret, ig_ret, thread>>

\* the UI toggles the edition
ToggleDeluxeVer ==
    /\ mutex = "free"
    /\ scope = "install_game"
    /\ app_state' = [app_state EXCEPT !.deluxe_ver_flag = ~@]
    /\ UNCHANGED <<mutex, scope, pc, ret_pc, events, requests, files, disk, ig, dl, ex,
                   call_ret, ig_ret, thread, obs>>

\* the UI toggles the installation of spritepacks
ToggleInstallSpr ==
    /\ mutex = "free"
    /\ scope = "install_game"
    /\ app_state' = [app_state EXCEPT !.install_spr_flag = ~@]
    /\ obs' = [obs EXCEPT !.spr_toggled = TRUE]
    /\ UNCHANGED <<mutex, scope, pc, ret_pc, events, requests, files, disk, ig, dl, ex,
                   call_ret, ig_ret, thread>>

\* the UI sets the extraction directory
SelectDir ==
    /\ mutex = "free"
    /\ scope = "install_game"
    /\ \E d \in Dirs \ {app_state.extraction_dir} :
          app_state' = [app_state EXCEPT !.extraction_dir = d]
    /\ UNCHANGED <<mutex, scope, pc, ret_pc, events, requests, files, disk, ig, dl, ex,
                   call_ret, ig_ret, thread, obs>>

UINext == RequestAbort \/ ToggleDeluxeVer \/ ToggleInstallSpr \/ SelectDir

(***************************************************************************)
(* Initial states                                                          *)
(***************************************************************************)
InitCommon ==
    /\ app_state \in [abort_flag : BOOLEAN, deluxe_ver_flag : BOOLEAN,
                      install_spr_flag : BOOLEAN, extraction_dir : Dirs]
    /\ events = <<>>
    /\ requests = <<>>
    /\ files = [f \in TempFiles |-> 0]
    /\ disk = {}
    /\ call_ret = NoRet
    /\ ig_ret = NoRet
    /\ thread = "running"
    /\ mutex = "free"

\* _download_to_file called on its own, the abort flag set or not before the call
InitDownload ==
    /\ InitCommon
    /\ scope = "_download_to_file"
    /\ pc = "dl_261"
    /\ ret_pc = "done"
    /\ app_state.deluxe_ver_flag /\ app_state.install_spr_flag
    /\ app_state.extraction_dir = <<Root, "dirA">>
    /\ ig = NoIg
    /\ dl = [NoDl EXCEPT !.link = "dlx_dl_link", !.file = "mas.tmp"]
    /\ ex = NoEx
    /\ obs = [Obs0 EXCEPT !.abort_pc = IF app_state.abort_flag THEN "before" ELSE "none"]

\* _extract_archive called on its own, the abort flag set or not before the call
InitExtract ==
    /\ InitCommon
    /\ scope = "_extract_archive"
    /\ pc = "ex_332"
    /\ ret_pc = "done"
    /\ app_state.deluxe_ver_flag /\ app_state.install_spr_flag
    /\ app_state.extraction_dir = <<Root, "dirA">>
    /\ ig = NoIg
    /\ dl = NoDl
    /\ ex = [NoEx EXCEPT !.file = "mas.tmp", !.destination = <<Root, "dirA">>]
    /\ obs = [Obs0 EXCEPT !.abort_pc = IF app_state.abort_flag THEN "before" ELSE "none"]

\* one call of a stage function, with the UI thread beside it
InitStage == InitDownload \/ InitExtract
NextStage == DownloadNext \/ ExtractNext \/ Lock \/ RequestAbort
SpecStage == InitStage /\ [][NextStage]_vars

\* the steps of the thread that runs the stage function
StageThreadNext == DownloadNext \/ ExtractNext \/ Lock
\* the thread is scheduled and every blocking call of it ends
FairSpecStage == SpecStage /\ WF_vars(StageThreadNext)

\* install_game_in_thread: the whole run, with the UI thread beside it
Init ==
    /\ InitCommon
    /\ scope = "install_game"
    /\ pc = "ig_413"
    /\ ret_pc = "none"
    /\ ig = NoIg
    /\ dl = NoDl
    /\ ex = NoEx
    /\ obs = [Obs0 EXCEPT !.abort_pc = IF app_state.abort_flag THEN "before" ELSE "none"]

Next == PipelineNext \/ UINext
Spec == Init /\ [][Next]_vars

\* the thread is scheduled and every blocking call of it ends
FairSpec == Spec /\ WF_vars(PipelineNext)

(***************************************************************************)
(* Properties: helpers                                                     *)
(***************************************************************************)
IsProgress(m) == m.name = "UpdateProgressBar"
\* a progress value is 1.0
IsOne(m) == IsProgress(m) /\ m.num = m.den
\* a <= b as fractions
FractionLeq(a, b) == a.num * b.den <= b.num * a.den
Last(q) == q[Len(q)]
CeilDiv(a, b) == (a + b - 1) \div b
\* the ranged GETs among the requests, in order
RangedGets == SelectSeq(requests, LAMBDA r : r.method = "GET" /\ r.range # <<>>)
\* the half-open interval [low, high) a ranged GET asks for
Low(r) == r.range[1]
High(r) == r.range[2] + 1
\* the entries _extract_archive has gone past, and what writing them in full leaves
WritesOfFirst(n) ==
    UNION {Written(ex.archive[k], Join(ex.destination, ex.archive[k].name), "end") :
             k \in 1..n}
HasUnsafeEntry == \E k \in 1..Len(ex.archive) : ~enclosed_name(ex.archive[k].name)
\* _download_to_file returned from its loop (content_size and total_downloaded exist)
ReturnedFromLoop ==
    /\ scope = "_download_to_file"
    /\ pc = "done"
    /\ thread # "panicked"
    /\ call_ret.line >= 284
\* every ranged GET of the call is in the logs
LogComplete == obs.gets <= MaxGets

\* the lines at which install_game returns Ok for a flag it read as set
AbortReturnLines == {417, 452, 464, 484, 496}
\* the lines at which install_game returns Ok after cleanup()
CompletedLines == {471, 502}
\* the names of the events sent so far
EventNames == [k \in 1..Len(events) |-> events[k].name]
IsTerminal(n) == n \in {"Done", "Error"}
\* how many events named n were sent
CountOf(n) == Cardinality({k \in 1..Len(events) : events[k].name = n})
\* the phase events install_game and cleanup send, by name and in order
InstallPhases ==
    SelectSeq(EventNames, LAMBDA n : n \notin {"UpdateProgressBar", "Error"})
IsPrefix(p, q) == Len(p) <= Len(q) /\ SubSeq(q, 1, Len(p)) = p
\* the phase events of a complete run
FullSequence(spr) ==
    IF spr
    THEN <<"Preparing", "Downloading", "Extracting", "DownloadingSpr",
           "ExtractingSpr", "CleaningUp", "Done">>
    ELSE <<"Preparing", "Downloading", "Extracting", "CleaningUp", "Done">>
\* the thread of the run has ended
RunEnded == scope = "install_game" /\ pc = "done"

(***************************************************************************)
(* C5.  An archive with an unsafe entry at any index makes                 *)
(* _extract_archive return UnsafeFilepath having written nothing at all,   *)
(* not even the entries before the unsafe one (no abort, no other failure).*)
(* The code writes the entries before the unsafe one.                      *)
(***************************************************************************)
C5_UnsafeArchiveWritesNothing ==
    (/\ scope = "_extract_archive"
     /\ ex.opened
     /\ HasUnsafeEntry
     /\ ~app_state.abort_flag
     /\ call_ret.err \in {"none", "UnsafeFilepath"})
    => /\ disk = {}
       /\ pc = "done" => call_ret.err = "UnsafeFilepath"

(***************************************************************************)
(* C6.  _extract_archive validates the stored path of an entry before it   *)
(* writes anything for it: the entries it has gone past are all safe, a    *)
(* return with UnsafeFilepath happens at the first unsafe entry with       *)
(* nothing written for it or for a later entry, and every write targets a  *)
(* path inside the destination directory.                                  *)
(***************************************************************************)
C6_ValidatesBeforeWrite ==
    (scope = "_extract_archive" /\ ex.opened) =>
       /\ \A k \in 1..ex.i : enclosed_name(ex.archive[k].name)
       /\ pc \in {"ex_350", "ex_367", "ex_371"} => enclosed_name(CurrentEntry.name)
       /\ \A w \in disk : Inside(w.target, ex.destination)
       /\ disk \subseteq WritesOfFirst(IF \/ pc \in {"ex_367", "ex_371"}
                                           \/ call_ret.line \in {351, 358, 362, 363, 372}
                                        THEN ex.i + 1 ELSE ex.i)
       /\ (pc = "done" /\ call_ret.err = "UnsafeFilepath") =>
             /\ ~enclosed_name(CurrentEntry.name)
             /\ disk \subseteq WritesOfFirst(ex.i)

\* an unsafe entry was met after a safe one had been written
C6_Witness ==
    /\ scope = "_extract_archive"
    /\ pc = "done"
    /\ call_ret = Err("UnsafeFilepath", 345)
    /\ ex.i = 1
    /\ disk # {}

(***************************************************************************)
(* C7.  With a server that returns exactly the requested range, the        *)
(* intervals [low, high) requested by _download_to_file partition          *)
(* [0, content_size): they start at 0, each starts where the one before    *)
(* ended, the last ends at content_size, and there are                     *)
(* ceil(content_size / DEF_CHUNK_SIZE) of them.  The code asks for one     *)
(* byte past the end in the last request of a download that does not end   *)
(* on a chunk boundary (up_bound is capped at content_size + 1), and       *)
(* issues a GET for a content length of 0.                                 *)
(***************************************************************************)
C7_RangesPartitionContent ==
    (ReturnedFromLoop /\ call_ret = Ok(322) /\ obs.exact /\ LogComplete) =>
       LET gets == RangedGets
           n == Len(gets)
       IN  /\ n = CeilDiv(dl.content_size, DEF_CHUNK_SIZE)
           /\ \A k \in 1..n :
                 /\ Low(gets[k]) = (IF k = 1 THEN 0 ELSE High(gets[k - 1]))
                 /\ Low(gets[k]) < High(gets[k])
           /\ n > 0 => High(gets[n]) = dl.content_size

(***************************************************************************)
(* C8.  A stage function called with the abort flag already set returns    *)
(* Ok having issued no request, opened no archive and written nothing;     *)
(* the only event it sends is UpdateProgressBar(0.0).                      *)
(***************************************************************************)
C8_AbortBeforeStage ==
    (scope # "install_game" /\ obs.abort_pc = "before") =>
       /\ requests = <<>>
       /\ \A f \in TempFiles : files[f] = 0
       /\ disk = {}
       /\ ~ex.opened
       /\ events \in {<<>>, <<UpdateProgressBar(0, 1)>>}
       /\ pc = "done" => /\ call_ret.val = "Ok"
                         /\ events = <<UpdateProgressBar(0, 1)>>
                         /\ thread # "panicked"

\* _download_to_file has returned from a call made with the flag set
C8_Witness ==
    /\ scope = "_download_to_file"
    /\ obs.abort_pc = "before"
    /\ pc = "done"
    /\ call_ret = Ok(264)
    /\ events = <<UpdateProgressBar(0, 1)>>

(***************************************************************************)
(* C10.  Within one call of _download_to_file total_downloaded never       *)
(* decreases, the progress values sent are non-decreasing, and (original)  *)
(* the last value sent is 1.0 exactly when total_downloaded equals         *)
(* content_size as the call returns.  For a content length of 0 no value   *)
(* is sent after the initial 0.0 (line 296), whatever total_downloaded is.  *)
(***************************************************************************)
\* the progress values sent by the call, in the order sent, never decrease
ProgressNonDecreasing ==
    \A k \in 1..(Len(events) - 1) : FractionLeq(events[k], events[k + 1])

\* C10, original statement: the last value is 1.0 exactly when total_downloaded
\* equals content_size as the call returns
C10_Original ==
    (scope = "_download_to_file" /\ LogComplete) =>
       /\ ProgressNonDecreasing
       /\ ReturnedFromLoop =>
             (IsOne(Last(events)) <=> dl.total_downloaded = dl.content_size)

\* C10 as the code has it: the last value is 1.0 exactly when total_downloaded
\* equals content_size and content_size is not 0; the progress values never
\* decrease, and total_downloaded never decreases from one step to the next
C10_ProgressMonotone ==
    /\ [](scope = "_download_to_file" /\ LogComplete =>
            /\ ProgressNonDecreasing
            /\ ReturnedFromLoop =>
                  (IsOne(Last(events)) <=>
                      (dl.total_downloaded = dl.content_size /\ dl.content_size # 0)))
    /\ [][scope = "_download_to_file" /\ pc # "dl_267" =>
             dl'.total_downloaded >= dl.total_downloaded]_vars

\* a download of several chunks has returned with its last value 1.0
C10_Witness ==
    /\ ReturnedFromLoop
    /\ Len(RangedGets) >= 2
    /\ IsOne(Last(events))
    /\ dl.total_downloaded = dl.content_size

(***************************************************************************)
(* C1.  Original statement: the last event of every run, a run that stops  *)
(* on an observed abort flag included, is Done or Error, and no event      *)
(* follows a Done or an Error.  A run that returns at an abort checkpoint  *)
(* sends neither: its last event is a progress value or a phase event.     *)
(***************************************************************************)
C1_Original ==
    /\ \A k \in 1..(Len(events) - 1) : ~IsTerminal(events[k].name)
    /\ RunEnded => (events # <<>> /\ IsTerminal(Last(events).name))

(***************************************************************************)
(* C1 as the code has it.  No event follows a Done or an Error; a run in   *)
(* which install_game returns Err ends with Error, a run in which it       *)
(* returns after cleanup ends with Done, and a run that returns at an      *)
(* abort checkpoint, or whose thread panics, sends neither.                *)
(***************************************************************************)
C1_TerminalEventLast ==
    scope = "install_game" =>
       /\ \A k \in 1..(Len(events) - 1) : ~IsTerminal(events[k].name)
       /\ (RunEnded /\ ig_ret.val = "Err") => Last(events) = Phase("Error")
       /\ (RunEnded /\ ig_ret.line \in CompletedLines) => Last(events) = Phase("Done")
       /\ (RunEnded /\ ig_ret.line \in AbortReturnLines) =>
             /\ obs.last_read = "set"
             /\ \A k \in 1..Len(events) : ~IsTerminal(events[k].name)
       /\ thread = "panicked" => \A k \in 1..Len(events) : ~IsTerminal(events[k].name)
       /\ RunEnded =>
             \/ thread = "panicked"
             \/ ig_ret.val = "Err"
             \/ ig_ret.line \in CompletedLines \cup AbortReturnLines

\* a run stopped at the abort check after the first download
C1_Witness ==
    /\ RunEnded
    /\ ig_ret = Ok(452)
    /\ Last(events).name = "UpdateProgressBar"
    /\ CountOf("Downloading") = 1

(***************************************************************************)
(* C2.  Every transition of install_game from one stage to the next is     *)
(* directly preceded by a read of the abort flag (nothing is sent or done  *)
(* between the read and the transition), and after a read that found the   *)
(* flag set no stage is entered, no event is sent and no work is done.     *)
(* The code reads the flag before ResolvingRelease, ExtractingPrimary,     *)
(* DownloadingSecondary, ExtractingSecondary and CleaningUp only.          *)
(***************************************************************************)
C2_ReadBeforeEveryStage ==
    [][scope = "install_game" =>
         /\ (obs.stage # "none" /\ obs'.stage # obs.stage) => obs.last_read = "clear"
         /\ obs.last_read = "set" =>
               /\ obs'.stage = obs.stage
               /\ events' = events
               /\ requests' = requests
               /\ files' = files
               /\ disk' = disk]_vars

(***************************************************************************)
(* C3.  A run in which the abort flag is set while it is in progress, and  *)
(* in which the operation in flight at that moment does not fail, ends     *)
(* with install_game returning Ok at an abort checkpoint and with no Error *)
(* event.  The code starts further operations before its next read of the  *)
(* flag, and the failure of one of them ends the run in Error.             *)
(***************************************************************************)
C3_AbortEndsInOk ==
    (/\ RunEnded
     /\ obs.abort_pc \notin {"none", "before", "th_515", "done"}
     /\ obs.failed_at \notin {"before_abort", "in_flight"})
    => /\ thread = "returned"
       /\ ig_ret.val = "Ok"
       /\ ig_ret.line \in AbortReturnLines
       /\ CountOf("Error") = 0

(***************************************************************************)
(* C4.  A run in which a stage fails ends with install_game returning the  *)
(* error and the thread sending exactly one Error event, the last of the   *)
(* run, and with neither CleaningUp nor Done sent.  A download of a        *)
(* resource of content length 0 fails by a panic (the subtraction          *)
(* up_bound - 1 of line 283 in a build with overflow checks): install_game *)
(* returns nothing and no Error is sent.                                   *)
(***************************************************************************)
C4_FailureEndsInOneError ==
    (RunEnded /\ obs.failed_at # "none") =>
       /\ ig_ret.val = "Err"
       /\ CountOf("Error") = 1
       /\ Last(events) = Phase("Error")
       /\ CountOf("CleaningUp") = 0
       /\ CountOf("Done") = 0

(***************************************************************************)
(* C9.  The phase events of a run with no abort and no failure are         *)
(* Preparing, Downloading, Extracting, then DownloadingSpr and             *)
(* ExtractingSpr if and only if install_spr_flag is true (as line 469      *)
(* reads it, which is its value all along unless the UI changes it during  *)
(* the run), then CleaningUp, then Done, each once; with the flag false no *)
(* request for the spritepacks is issued and the run ends in Done.  In     *)
(* every run the phase events sent so far are a prefix of that sequence.   *)
(***************************************************************************)
C9_PhaseSequence ==
    scope = "install_game" =>
       /\ ig.spr = "unread" =>
             IsPrefix(InstallPhases, <<"Preparing", "Downloading", "Extracting">>)
       /\ ig.spr # "unread" => IsPrefix(InstallPhases, FullSequence(ig.spr = "yes"))
       /\ (ig.spr # "unread" /\ ~obs.spr_toggled) =>
             (ig.spr = "yes" <=> app_state.install_spr_flag)
       /\ ig.spr # "yes" =>
             \A k \in 1..Len(requests) : requests[k].url # "spr_dl_link"
       /\ (RunEnded /\ obs.failed_at = "none" /\ ig_ret.line \notin AbortReturnLines) =>
             /\ ig.spr # "unread"
             /\ InstallPhases = FullSequence(ig.spr = "yes")
             /\ Last(events) = Phase("Done")
       /\ (RunEnded /\ ~app_state.abort_flag) => ig_ret.line \notin AbortReturnLines

\* a complete run without spritepacks
C9_Witness ==
    /\ RunEnded
    /\ ~app_state.abort_flag
    /\ obs.failed_at = "none"
    /\ ~obs.spr_toggled
    /\ ~app_state.install_spr_flag
    /\ InstallPhases = FullSequence(FALSE)
    /\ Last(events) = Phase("Done")

(***************************************************************************)
(* C11.  Every fraction carried by an UpdateProgressBar event lies in      *)
(* [0, 1], whatever the server answers and whatever the archive holds: in  *)
(* a download total_downloaded never exceeds content_size when a progress  *)
(* value is sent.  The code adds the size of every body to                 *)
(* total_downloaded (line 293) and sends the quotient unclamped (line      *)
(* 297): a body larger than what is left of the resource gives a value     *)
(* above 1.                                                                *)
(***************************************************************************)
C11_FractionsWithinUnit ==
    \A k \in 1..Len(events) :
        IsProgress(events[k]) =>
            /\ 0 <= events[k].num
            /\ events[k].den > 0
            /\ events[k].num <= events[k].den

\* the progress values _extract_archive has sent after its initial 0.0
ExtractSent == Len(events) - 1
\* every entry of the archive has a safe stored path
AllSafe == \A k \in 1..Len(ex.archive) : enclosed_name(ex.archive[k].name)

(***************************************************************************)
(* C12.  The progress values _extract_archive sends after its initial 0.0  *)
(* are 1/N, 2/N, ... in that order, N the number of entries; the k-th is   *)
(* sent when the first k entries are written in full and nothing of a      *)
(* later entry is, and no entry is started while the value of the entry    *)
(* before it is still to be sent.  Extracting N entries with safe paths,   *)
(* with no abort and no failure, returns Ok with exactly the N values sent *)
(* and the N entries written.                                              *)
(***************************************************************************)
C12_ExtractProgress ==
    (scope = "_extract_archive" /\ ex.opened) =>
       /\ events[1] = UpdateProgressBar(0, 1)
       /\ \A k \in 1..ExtractSent : events[k + 1] = UpdateProgressBar(k, ex.total_files)
       /\ ExtractSent = (IF pc = "ex_371" \/ call_ret.line = 372 THEN ex.i + 1 ELSE ex.i)
       /\ ExtractSent <= ex.total_files
       /\ WritesOfFirst(ExtractSent) \subseteq disk
       /\ disk \subseteq WritesOfFirst(Min(ExtractSent + 1, ex.total_files))
       /\ pc \in {"ex_342", "ex_350", "ex_371"} => disk = WritesOfFirst(ExtractSent)
       /\ (pc = "done" /\ AllSafe /\ ~app_state.abort_flag /\ obs.failed_at = "none") =>
             /\ call_ret = Ok(375)
             /\ ExtractSent = ex.total_files
             /\ disk = WritesOfFirst(ex.total_files)

\* two entries were extracted and the values 1/2 and 2/2 sent
C12_Witness ==
    /\ scope = "_extract_archive"
    /\ pc = "done"
    /\ call_ret = Ok(375)
    /\ ex.total_files = 2
    /\ events = <<UpdateProgressBar(0, 1), UpdateProgressBar(1, 2), UpdateProgressBar(2, 2)>>
    /\ disk = WritesOfFirst(2)

(***************************************************************************)
(* C13.  A HEAD response without a Content-Length header, or with one that *)
(* is not text or does not parse as an unsigned integer, makes             *)
(* _download_to_file return InvalidContentLen at once: no GET request is   *)
(* issued and no byte is written to the destination file.  The call        *)
(* returns InvalidContentLen in no other case.                             *)
(***************************************************************************)
C13_BadContentLength ==
    scope = "_download_to_file" =>
       /\ obs.head \in BadContentLengths =>
             /\ pc = "done"
             /\ call_ret = Err("InvalidContentLen", InvalidContentLenLine(obs.head))
             /\ RangedGets = <<>>
             /\ Len(requests) = 1
             /\ obs.gets = 0
             /\ files[dl.file] = 0
       /\ call_ret.err = "InvalidContentLen" => obs.head \in BadContentLengths

\* the HEAD response carried a Content-Length that is no number
C13_Witness ==
    /\ scope = "_download_to_file"
    /\ obs.head = "not_number"
    /\ pc = "done"
    /\ call_ret = Err("InvalidContentLen", 271)
    /\ requests = <<[method |-> "HEAD", url |-> dl.link, range |-> <<>>]>>

\* the number of bytes the ranged GET under way asked for
RequestedBytes == dl.up_bound - dl.low_bound

(***************************************************************************)
(* C14.  When a ranged GET brought r bytes, fewer than it asked for, and   *)
(* the download is not complete, the next request starts at the low bound  *)
(* of this one plus r: low_bound moves by the bytes received, not by the   *)
(* chunk size, and the Range header of the next GET starts there.          *)
(***************************************************************************)
C14_ShortChunkAdvance ==
    [][(/\ scope = "_download_to_file"
        /\ pc = "dl_308"
        /\ pc' = "dl_315"
        /\ dl.received_chunk < RequestedBytes)
       => /\ dl'.low_bound = dl.low_bound + dl.received_chunk
          /\ RangeRequest'.range[1] = dl.low_bound + dl.received_chunk]_vars

\* after a response of one byte to a request for two the next request starts at 1
C14_Witness ==
    /\ scope = "_download_to_file"
    /\ Len(RangedGets) >= 2
    /\ RangedGets[1].range = <<0, 1>>
    /\ RangedGets[2].range[1] = 1

RequestAndWriteSites == {"dl_267", "dl_281", "ex_350", "ig_435", "ig_436", "ig_437"}

(***************************************************************************)
(* C16.  Once the abort flag is set, the pipeline completes at most the    *)
(* operation in flight at that moment: it starts no further HEAD or        *)
(* ranged GET request, no further extraction of an archive entry and no    *)
(* creation of temp storage.  The code reads the flag at lines 263, 315,   *)
(* 334, 371, 416, 451, 463, 483 and 495 only, and starts whatever lies     *)
(* between the setting of the flag and the next of these reads.            *)
(***************************************************************************)
C16_NothingStartedAfterAbort ==
    obs.late \cap RequestAndWriteSites = {}

C18_NoUnderflow ==
    /\ (scope = "_download_to_file" /\ pc = "dl_281") => dl.up_bound >= 1
    /\ thread # "panicked"
    /\ \A k \in 1..Len(RangedGets) : RangedGets[k].range[2] # U128_MAX

(***************************************************************************)
(* C19.  With the abort flag never set, _download_to_file terminates       *)
(* whatever the content length and whatever each ranged GET does (fail, or *)
(* succeed with any number of bytes), a server that keeps answering with a *)
(* success status and an empty body included.  In the code an empty body   *)
(* leaves total_downloaded, low_bound and up_bound as they were, so the    *)
(* loop repeats the same request for ever: it has no bound on its          *)
(* iterations and no test for a chunk of 0 bytes.                          *)
(***************************************************************************)
C19_DownloadTerminates ==
    ([]~app_state.abort_flag) => <>(pc = "done")

(***************************************************************************)
(* C20.  install_game reads the edition flag (lines 424-427) and the       *)
(* extraction directory (line 429) once in a run, after the release has    *)
(* been resolved and before the first download.  What the UI thread makes  *)
(* of either later in the run changes neither the link that is downloaded  *)
(* nor the directory: the primary archive is extracted into the directory  *)
(* read at line 429 and the spritepacks into its `spritepacks`             *)
(* subdirectory.  No step of install_game writes a field of SharedState.   *)
(***************************************************************************)
ReleaseRequest == [method |-> "GET", url |-> "releases/latest", range |-> <<>>]
PrimaryLinks == {"dlx_dl_link", "def_dl_link"}
SprDestination == Join(ig.destination, <<"spritepacks">>)
\* the two reads happen with the release resolved and nothing downloaded
C20_ReadsBeforeDownload ==
    /\ pc \in {"ig_424", "ig_429"} => requests = <<ReleaseRequest>>
    /\ pc = "ig_424" => ig.download_link = "none"
    /\ pc \in {"ig_424", "ig_429"} => ig.destination = <<>>
\* the link and the directories in use are the ones read
C20_UsesWhatWasRead ==
    /\ \A k \in 1..Len(requests) :
          requests[k].url \in PrimaryLinks => requests[k].url = ig.download_link
    /\ obs.stage = "DownloadingPrimary" => dl.link = ig.download_link
    /\ obs.stage = "ExtractingPrimary" => ex.destination = ig.destination
    /\ obs.stage = "ExtractingSecondary" => ex.destination = SprDestination
    /\ \A w \in disk : IsPrefix(ig.destination, w.target)
\* the locals are assigned by the reads alone, once each
C20_ReadOnce ==
    /\ ig'.download_link # ig.download_link =>
          /\ pc = "ig_424" /\ pc' = "ig_429" /\ ig.download_link = "none"
          /\ ig'.download_link = IF app_state.deluxe_ver_flag THEN "dlx_dl_link"
                                 ELSE "def_dl_link"
    /\ ig'.destination # ig.destination =>
          /\ pc = "ig_429" /\ pc' = "ig_431" /\ ig.destination = <<>>
          /\ ig'.destination = app_state.extraction_dir
    /\ (disk' # disk /\ obs.stage = "ExtractingSecondary") =>
          \A w \in disk' \ disk : IsPrefix(SprDestination, w.target)
C20_ReadOnceNeverWritten ==
    /\ [](C20_ReadsBeforeDownload /\ C20_UsesWhatWasRead)
    /\ [][C20_ReadOnce]_vars
    /\ [][PipelineNext => app_state' = app_state]_vars
\* the UI changed both after the reads and both archives were extracted
C20_Witness ==
    /\ obs.stage = "ExtractingSecondary"
    /\ app_state.extraction_dir # ig.destination
    /\ app_state.deluxe_ver_flag # (ig.download_link = "dlx_dl_link")
    /\ [target |-> ig.destination \o <<"a">>, kind |-> "file"] \in disk
    /\ [target |-> SprDestination \o <<"a">>, kind |-> "file"] \in disk
=============================================================================
